---- MODULE Spec2Model ----
(***************************************************************************)
(* Crop-planning optimizer: constructive generation, fitness (profit minus *)
(* penalties), local search and the solution validator.                    *)
(*                                                                         *)
(* Representation.                                                         *)
(*  - Plots are numbered 1..N in the insertion order of land_info.         *)
(*  - A cell is [crop_id, area]; a year's cells are a function from a      *)
(*    subset of Seasons; a plot's inner dict is a function year -> cells.  *)
(*  - A solution (outer dict) maps each plot to the ADDRESS of its inner   *)
(*    dict; heap maps addresses to inner dicts.  dict.copy() copies the    *)
(*    outer dict only, so a copy holds the same addresses.                 *)
(*  - Areas are held in tenths of a mu (area 0.3 is 3).  Money is held     *)
(*    times FitScale = 40 so that area/10, (min+max)/2 and the factor 0.5  *)
(*    stay exact in integers.  Penalties are integers before scaling.      *)
(*  - Season labels: single = '单季', first = '第一季', second = '第二季'. *)
(*  - Land types: flat_dry '平旱地', terrace '梯田', hillside '山坡地',    *)
(*    water '水浇地', normal_greenhouse '普通大棚', smart_greenhouse       *)
(*    '智慧大棚'.  Crop type tags: grain '粮食', grain_bean '粮食（豆类）',*)
(*    vegetable '蔬菜', vegetable_bean '蔬菜（豆类）', fungus '食用菌',    *)
(*    bean_grain: any other spelling holding '粮食' and '豆类'.            *)
(*  - Spec is one call of optimize; SpecEval calls the evaluator and the   *)
(*    validator on generated plans; SpecMain is main: both scenarios, each *)
(*    followed by save_solution.                                           *)
(***************************************************************************)
EXTENDS Integers, Sequences, FiniteSets, TLC

VARIABLES
    land_info,        \* plot -> [type, area]              (optimization.py:13)
    crop_info,        \* crop id -> [type]                 (optimization.py:13)
    stats_info,       \* <<crop, land type, season>> -> statistics
    expected_sales,   \* crop id -> demand baseline
    scenario,         \* 1 = shortage, 2 = markdown
    years,            \* horizon of the run
    pc,               \* position of the run
    i,                \* loop index of _simple_optimize
    heap,             \* address -> inner dict (year -> cells)
    best_solution,    \* outer dict: plot -> address
    best_fitness,     \* tracked best fitness, times FitScale
    improved,         \* local search flag
    iterations,       \* local search pass counter
    lands_to_modify,  \* plots of the current pass not yet tried
    input_fitness,    \* history: fitness of the plan local search started from
    max_generated,    \* history: highest fitness among the generated candidates
    ret               \* return values of the latest calls

vars == <<land_info, crop_info, stats_info, expected_sales, scenario, years,
          pc, i, heap, best_solution, best_fitness, improved, iterations,
          lands_to_modify, input_fitness, max_generated, ret>>

dataset == <<land_info, crop_info, stats_info, expected_sales>>

----------------------------------------------------------------------------
(* Bounds and program constants *)

MaxYears == 2

K == 10
max_iterations == 100
SampleSize == 5
NegInf == -1000000000
FitScale == 40

RotationWeight == 100000
ReplantWeight == 50000
MinPlots == 2
MaxPlots == 8
MinPlotsWeight == 50000
MaxPlotsWeight == 30000
MinArea10 == 5
MinAreaWeight10 == 2000

Rice == 18
SecondVegSet == {37, 38, 39}
MushroomRange == 40..43

Seasons == {"single", "first", "second"}
SeasonOrder == <<"single", "first", "second">>

Min(a, b) == IF a < b THEN a ELSE b
Max(a, b) == IF a > b THEN a ELSE b

RECURSIVE SumFun(_)
SumFun(f) ==
    IF DOMAIN f = {} THEN 0
    ELSE LET x == CHOOSE z \in DOMAIN f : TRUE
         IN  f[x] + SumFun([y \in (DOMAIN f) \ {x} |-> f[y]])

EmptyDict == [s \in {} |-> 0]

----------------------------------------------------------------------------
(* Datasets: what DataLoader.preprocess_data hands to the optimizer. *)

Land(t, a) == [type |-> t, area |-> a]
Crop(t) == [type |-> t]
Stat(y, c, lo, hi) == [yield_per_mu |-> y, cost_per_mu |-> c, min_price |-> lo, max_price |-> hi]

\* one open dry plot and one irrigated plot; rice (18) is the only grain crop
DatasetMixed ==
    [land_info |-> <<Land("flat_dry", 100), Land("water", 50)>>,
     crop_info |-> (18 :> Crop("grain") @@ 20 :> Crop("vegetable")
                    @@ 37 :> Crop("vegetable") @@ 38 :> Crop("vegetable")),
     stats_info |-> (<<18, "water", "single">> :> Stat(500, 680, 6, 8)
                     @@ <<20, "water", "first">> :> Stat(3000, 2000, 2, 3)
                     @@ <<37, "water", "second">> :> Stat(5000, 2000, 2, 3)
                     @@ <<38, "water", "second">> :> Stat(4000, 500, 2, 3)),
     expected_sales |-> (18 :> 2000 @@ 20 :> 10000 @@ 38 :> 15000)]

\* an ordinary and a smart greenhouse
DatasetGreenhouse ==
    [land_info |-> <<Land("normal_greenhouse", 5), Land("smart_greenhouse", 6)>>,
     crop_info |-> (17 :> Crop("vegetable_bean") @@ 20 :> Crop("vegetable")
                    @@ 40 :> Crop("fungus") @@ 41 :> Crop("fungus")),
     stats_info |-> (<<20, "normal_greenhouse", "first">> :> Stat(3600, 2400, 5, 8)
                     @@ <<40, "normal_greenhouse", "second">> :> Stat(5000, 3000, 50, 66)
                     @@ <<41, "normal_greenhouse", "second">> :> Stat(4000, 2000, 20, 30)
                     @@ <<20, "smart_greenhouse", "first">> :> Stat(3600, 2400, 5, 8)
                     @@ <<20, "smart_greenhouse", "second">> :> Stat(3200, 2600, 6, 9)),
     expected_sales |-> (20 :> 2000 @@ 40 :> 2500)]

\* a terrace and a hillside plot, one of them below the minimum area
DatasetSlopes ==
    [land_info |-> <<Land("terrace", 3), Land("hillside", 100)>>,
     crop_info |-> (1 :> Crop("grain_bean") @@ 6 :> Crop("grain")),
     stats_info |-> (<<1, "terrace", "single">> :> Stat(380, 400, 3, 4)
                     @@ <<6, "terrace", "single">> :> Stat(760, 450, 3, 4)
                     @@ <<1, "hillside", "single">> :> Stat(360, 400, 3, 4)
                     @@ <<6, "hillside", "single">> :> Stat(720, 450, 3, 4)),
     expected_sales |-> (1 :> 3000 @@ 6 :> 10000)]

\* eight open dry plots and one irrigated plot; rice is the only grain crop
DatasetWide ==
    [land_info |-> <<Land("flat_dry", 100), Land("flat_dry", 100), Land("flat_dry", 100),
                     Land("flat_dry", 100), Land("flat_dry", 100), Land("flat_dry", 100),
                     Land("flat_dry", 100), Land("flat_dry", 100), Land("water", 50)>>,
     crop_info |-> (18 :> Crop("grain") @@ 20 :> Crop("vegetable") @@ 37 :> Crop("vegetable")),
     stats_info |-> (<<18, "flat_dry", "single">> :> Stat(400, 500, 6, 8)
                     @@ <<18, "water", "single">> :> Stat(500, 680, 6, 8)
                     @@ <<20, "water", "first">> :> Stat(3000, 2000, 2, 3)
                     @@ <<37, "water", "second">> :> Stat(5000, 2000, 2, 3)),
     expected_sales |-> (18 :> 30000 @@ 20 :> 10000)]

\* a dataset whose plot sheet has no rows
DatasetEmpty ==
    [land_info |-> <<>>,
     crop_info |-> (1 :> Crop("grain_bean") @@ 6 :> Crop("grain")),
     stats_info |-> (<<1, "flat_dry", "single">> :> Stat(400, 400, 3, 4)),
     expected_sales |-> (1 :> 3000)]

\* one irrigated plot in a dataset whose crop sheet has no crop 18
DatasetNoRice ==
    [land_info |-> <<Land("water", 4)>>,
     crop_info |-> (20 :> Crop("vegetable") @@ 37 :> Crop("vegetable")),
     stats_info |-> (<<20, "water", "first">> :> Stat(3000, 2000, 2, 3)
                     @@ <<37, "water", "second">> :> Stat(5000, 2000, 2, 3)),
     expected_sales |-> (20 :> 10000)]

\* one irrigated plot of 10 mu and one grain-legume crop, listed as crop 18
DatasetSinglePlot ==
    [land_info |-> <<Land("water", 100)>>,
     crop_info |-> (18 :> Crop("grain_bean")),
     stats_info |-> (<<18, "water", "single">> :> Stat(500, 200, 2, 3)),
     expected_sales |-> (18 :> 6000)]

\* one terrace plot; the legume grain of the crop sheet carries another spelling of its tag
DatasetOtherTag ==
    [land_info |-> <<Land("terrace", 100)>>,
     crop_info |-> (2 :> Crop("bean_grain") @@ 6 :> Crop("grain")),
     stats_info |-> (<<2, "terrace", "single">> :> Stat(380, 400, 3, 4)
                     @@ <<6, "terrace", "single">> :> Stat(760, 450, 3, 4)),
     expected_sales |-> (2 :> 3000 @@ 6 :> 10000)]

RunDatasets ==
    {DatasetMixed, DatasetGreenhouse, DatasetSlopes, DatasetNoRice, DatasetEmpty,
     DatasetSinglePlot}
EvalDatasets ==
    {DatasetMixed, DatasetGreenhouse, DatasetSlopes, DatasetNoRice, DatasetWide,
     DatasetSinglePlot, DatasetOtherTag}

----------------------------------------------------------------------------
(* Classification done once at construction *)

\* the tags a crop sheet can carry; "bean_grain" stands for a tag that holds the
\* grain and the bean substrings but is spelled unlike the two legume tags of
\* the attachment
HasGrainMarker(t) == t \in {"grain", "grain_bean", "bean_grain"}
HasBeanMarker(t) == t \in {"grain_bean", "vegetable_bean", "bean_grain"}

Lands == DOMAIN land_info
bean_crops == {c \in DOMAIN crop_info : HasBeanMarker(crop_info[c].type)}

\* the plan a solution denotes in heap h: plot -> year -> cells
PlanIn(h, sol) == [l \in DOMAIN sol |-> h[sol[l]]]
Plan(sol) == PlanIn(heap, sol)

Cells(p) ==
    UNION { UNION { { <<l, y, s>> : s \in DOMAIN p[l][y] } : y \in DOMAIN p[l] } : l \in DOMAIN p }

----------------------------------------------------------------------------
(* Fitness Evaluator *)

\* the cell's crop, the cell's area
CropAt(p, c) == p[c[1]][c[2]][c[3]].crop_id
AreaAt(p, c) == p[c[1]][c[2]][c[3]].area

\* key = (crop_id, land_type, season)
StatsKey(p, c) == <<CropAt(p, c), land_info[c[1]].type, c[3]>>

\* total_yield = yield_per_mu * area, times 10
Yield10(stats, area) == stats.yield_per_mu * area

\* a price taken at the bottom of the range instead of its midpoint
Price2_MinOnly(stats) == stats.min_price + stats.min_price

\* price = (min_price + max_price) / 2, times 2
Price2(stats) == stats.min_price + stats.max_price

\* min(total_yield, expected), times 10
CappedYield10(y10, expected) == Min(y10, 10 * expected)

\* a revenue rule whose markdown case sells the whole yield at half price
Revenue40_HalfAll(crop, stats, area, sc) ==
    LET y10 == Yield10(stats, area)
        p2  == Price2(stats)
    IN  IF crop \in DOMAIN expected_sales
        THEN LET expected == expected_sales[crop]
             IN  IF sc = 1
                 THEN 2 * CappedYield10(y10, expected) * p2
                 ELSE CappedYield10(y10, expected) * p2
                      + Max(0, y10 - 10 * expected) * p2
        ELSE 2 * y10 * p2

\* revenue of one cell, times FitScale
Revenue40(crop, stats, area, sc) ==
    LET y10 == Yield10(stats, area)
        p2  == Price2(stats)
    IN  IF crop \in DOMAIN expected_sales
        THEN LET expected == expected_sales[crop]
             IN  IF sc = 1
                 THEN 2 * CappedYield10(y10, expected) * p2
                 ELSE 2 * CappedYield10(y10, expected) * p2
                      + Max(0, y10 - 10 * expected) * p2
        ELSE 2 * y10 * p2

\* revenue - cost * area of one cell, times FitScale; 0 when the key has no statistics
CellProfit40(p, c, sc) ==
    LET key == StatsKey(p, c)
    IN  IF key \notin DOMAIN stats_info THEN 0
        ELSE Revenue40(CropAt(p, c), stats_info[key], AreaAt(p, c), sc)
             - 4 * stats_info[key].cost_per_mu * AreaAt(p, c)

\* the revenue part of the total, times FitScale
TotalRevenue40(p, sc) ==
    SumFun([c \in Cells(p) |->
              IF StatsKey(p, c) \notin DOMAIN stats_info THEN 0
              ELSE Revenue40(CropAt(p, c), stats_info[StatsKey(p, c)], AreaAt(p, c), sc)])

TotalProfit40(p, sc) == SumFun([c \in Cells(p) |-> CellProfit40(p, c, sc)])

\* crop ids of a plot's existing cells for years 0..n-1, in (year, season) order, from position k
RECURSIVE ChronoCrops(_, _, _)
ChronoCrops(inner, n, k) ==
    IF k >= 3 * n THEN <<>>
    ELSE LET y == k \div 3
             s == SeasonOrder[(k % 3) + 1]
             rest == ChronoCrops(inner, n, k + 1)
         IN  IF y \in DOMAIN inner /\ s \in DOMAIN inner[y]
             THEN <<inner[y][s].crop_id>> \o rest
             ELSE rest

NumYears(inner) == Cardinality(DOMAIN inner)

\* rule 1: plots with no bean crop in range(len(solution[land]))
RotationPenalty(p) ==
    RotationWeight *
    Cardinality({l \in DOMAIN p :
                   \A j \in DOMAIN ChronoCrops(p[l], NumYears(p[l]), 0) :
                       ChronoCrops(p[l], NumYears(p[l]), 0)[j] \notin bean_crops})

\* rule 2: positions whose crop equals prev_crop
ReplantCount(seq) == Cardinality({j \in 2..Len(seq) : seq[j] = seq[j - 1]})

\* a scan that forgets prev_crop at the start of every year
ReplantPenalty_PerYear(p) ==
    ReplantWeight *
    SumFun([l \in DOMAIN p |->
              SumFun([y \in DOMAIN p[l] |-> ReplantCount(ChronoCrops((0 :> p[l][y]), 1, 0))])])

ReplantPenalty(p) ==
    ReplantWeight * SumFun([l \in DOMAIN p |-> ReplantCount(ChronoCrops(p[l], NumYears(p[l]), 0))])

\* rule 3: crop_distribution of one (year, season): crop -> set of plots
crop_distribution(p, y, s) ==
    LET planted == {l \in DOMAIN p : y \in DOMAIN p[l] /\ s \in DOMAIN p[l][y]}
    IN  [c \in {p[l][y][s].crop_id : l \in planted} |->
            {l \in planted : p[l][y][s].crop_id = c}]

\* a concentration term that forgets the upper bound
ConcentrationTerm_NoMax(n) ==
    IF n < MinPlots THEN MinPlotsWeight * (MinPlots - n) ELSE 0

ConcentrationTerm(n) ==
    IF n < MinPlots THEN MinPlotsWeight * (MinPlots - n)
    ELSE IF n > MaxPlots THEN MaxPlotsWeight * (n - MaxPlots)
    ELSE 0

\* the strata scanned: range(len(solution[first plot])) x seasons
Strata(p) == (0..(NumYears(p[1]) - 1)) \X Seasons

ConcentrationPenalty(p) ==
    SumFun([st \in Strata(p) |->
              LET d == crop_distribution(p, st[1], st[2])
              IN  SumFun([c \in DOMAIN d |-> ConcentrationTerm(Cardinality(d[c]))])])

\* a minimum-area rule that charges a small plot once instead of each of its cells
MinAreaPenalty_PerPlot(p) ==
    SumFun([l \in DOMAIN p |->
              IF land_info[l].area < MinArea10
              THEN MinAreaWeight10 * (MinArea10 - land_info[l].area) ELSE 0])

\* rule 4: 20000 * (0.5 - area) for every cell with area < 0.5
MinAreaPenalty(p) ==
    SumFun([c \in Cells(p) |->
              IF AreaAt(p, c) < MinArea10 THEN MinAreaWeight10 * (MinArea10 - AreaAt(p, c)) ELSE 0])

\* list(solution.keys())[0] raises IndexError on a solution without plots
PenaltyRaises(p) == DOMAIN p = {}

_calculate_constraint_penalty(p) ==
    RotationPenalty(p) + ReplantPenalty(p) + ConcentrationPenalty(p) + MinAreaPenalty(p)

\* fitness times FitScale
_calculate_fitness(p, sc) == TotalProfit40(p, sc) - FitScale * _calculate_constraint_penalty(p)

----------------------------------------------------------------------------
(* Constructive Generator *)

grain_crops == {c \in DOMAIN crop_info : HasGrainMarker(crop_info[c].type)}
veg_crops == {c \in DOMAIN crop_info : crop_info[c].type = "vegetable" /\ c \notin SecondVegSet}
second_crops == SecondVegSet \cap DOMAIN crop_info
mushroom_crops == MushroomRange \cap DOMAIN crop_info

Cell(c, a) == [crop_id |-> c, area |-> a]

\* one single-season cell with a crop of C, or no cell when C is empty
SingleSeason(C, a) ==
    IF C = {} THEN {EmptyDict}
    ELSE {[s \in {"single"} |-> Cell(c, a)] : c \in C}

\* a first-season cell from F when F is not empty, a second-season cell from S when S is not empty
TwoSeason(F, S, a) ==
    LET dom == (IF F = {} THEN {} ELSE {"first"}) \cup (IF S = {} THEN {} ELSE {"second"})
        FF  == IF F = {} THEN {0} ELSE F
        SS  == IF S = {} THEN {0} ELSE S
    IN  {[s \in dom |-> Cell(IF s = "first" THEN f ELSE g, a)] : f \in FF, g \in SS}

\* the cells the generator can give one plot-year
GenerateCells(land) ==
    LET land_type == land_info[land].type
        area == land_info[land].area
    IN  IF land_type \in {"flat_dry", "terrace", "hillside"}
            THEN SingleSeason(grain_crops, area)
        ELSE IF land_type = "water"
            THEN {[s \in {"single"} |-> Cell(Rice, area)]}
                 \cup TwoSeason(veg_crops, second_crops, area)
        ELSE IF land_type = "normal_greenhouse"
            THEN TwoSeason(veg_crops, mushroom_crops, area)
        ELSE IF land_type = "smart_greenhouse"
            THEN TwoSeason(veg_crops, veg_crops, area)
        ELSE {EmptyDict}

\* a regeneration that refills an irrigated plot-year without clearing it first
RegenerateCells_NoClear(land) ==
    LET land_type == land_info[land].type
        area == land_info[land].area
    IN  IF land_type = "water"
            THEN SingleSeason({Rice}, area)
                 \cup {[s \in {"single", "second"} |->
                          Cell(IF s = "single" THEN Rice ELSE g, area)] : g \in second_crops}
        ELSE GenerateCells(land)

\* the cells local search can give the plot-year it regenerates
RegenerateCells(land) ==
    LET land_type == land_info[land].type
        area == land_info[land].area
    IN  IF land_type \in {"flat_dry", "terrace", "hillside"}
            THEN SingleSeason(grain_crops, area)
        ELSE IF land_type = "water"
            THEN {[s \in {"single"} |-> Cell(Rice, area)]}
                 \cup TwoSeason(veg_crops, second_crops, area)
        ELSE IF land_type = "normal_greenhouse"
            THEN TwoSeason(veg_crops, mushroom_crops, area)
        ELSE IF land_type = "smart_greenhouse"
            THEN TwoSeason(veg_crops, veg_crops, area)
        ELSE {EmptyDict}

\* the plans the generator can return for plots 1..n
RECURSIVE GeneratedUpTo(_, _)
GeneratedUpTo(n, yrs) ==
    IF n = 0 THEN {<<>>}
    ELSE {Append(p, inner) : p \in GeneratedUpTo(n - 1, yrs),
                             inner \in [0..(yrs - 1) -> GenerateCells(n)]}

_generate_initial_solution(yrs) == GeneratedUpTo(Len(land_info), yrs)

----------------------------------------------------------------------------
(* Solution Validator *)

\* the scan of one plot; crop_info[crop_id] raises KeyError on an unknown crop
RECURSIVE RotationScan(_)
RotationScan(seq) ==
    IF seq = <<>> THEN "none"
    ELSE IF Head(seq) \notin DOMAIN crop_info THEN "KeyError"
    ELSE IF crop_info[Head(seq)].type \in {"grain_bean", "vegetable_bean"} THEN "bean"
    ELSE RotationScan(Tail(seq))

RECURSIVE validate_rotation_from(_, _, _)
validate_rotation_from(p, yrs, l) ==
    IF l > Len(p) THEN "True"
    ELSE LET r == RotationScan(ChronoCrops(p[l], yrs, 0))
         IN  IF r = "bean" THEN validate_rotation_from(p, yrs, l + 1)
             ELSE IF r = "none" THEN "False"
             ELSE "KeyError"

\* "True", "False" or "KeyError"
validate_rotation(p, yrs) == validate_rotation_from(p, yrs, 1)

validate_no_replant(p) ==
    \A l \in DOMAIN p :
        LET seq == ChronoCrops(p[l], NumYears(p[l]), 0)
        IN  \A j \in 2..Len(seq) : seq[j] # seq[j - 1]

\* one crop_distribution for the whole plan: crop -> plots, over all years and seasons
validate_concentration(p, min_plots) ==
    LET walked == {c \in Cells(p) : c[2] \in 0..(NumYears(p[c[1]]) - 1)}
        crops == {CropAt(p, c) : c \in walked}
    IN  \A crop \in crops :
            Cardinality({c[1] : c \in {w \in walked : CropAt(p, w) = crop}}) >= min_plots

validate_min_area(p, min_area10) ==
    \A c \in Cells(p) :
        c[2] \in 0..(NumYears(p[c[1]]) - 1) => AreaAt(p, c) >= min_area10

----------------------------------------------------------------------------
(* The optimization run: optimize -> _simple_optimize -> _simple_local_search *)

NoRet == [error |-> "", fitness |-> <<>>, penalty |-> <<>>, valid |-> <<>>, export |-> <<>>]

IdentityRefs(n) == [l \in 1..n |-> l]

Init ==
    \E d \in RunDatasets, sc \in {1, 2}, y \in 0..MaxYears :
        /\ land_info = d.land_info
        /\ crop_info = d.crop_info
        /\ stats_info = d.stats_info
        /\ expected_sales = d.expected_sales
        /\ scenario = sc
        /\ years = y
        /\ pc = "construct"
        /\ i = 0
        /\ heap = <<>>
        /\ best_solution = <<>>
        /\ best_fitness = NegInf
        /\ improved = FALSE
        /\ iterations = 0
        /\ lands_to_modify = {}
        /\ input_fitness = NegInf
        /\ max_generated = NegInf
        /\ ret = NoRet

\* one pass of the loop over the K initial solutions
GenerateCandidate ==
    /\ pc = "construct"
    /\ i < K
    /\ \E solution \in _generate_initial_solution(years) :
          /\ ~PenaltyRaises(solution)
          /\ LET fitness == _calculate_fitness(solution, scenario)
             IN  /\ max_generated' = Max(max_generated, fitness)
                 /\ IF fitness > best_fitness
                    THEN /\ best_fitness' = fitness
                         /\ heap' = solution
                         /\ best_solution' = IdentityRefs(Len(solution))
                    ELSE UNCHANGED <<best_fitness, heap, best_solution>>
    /\ i' = i + 1
    /\ UNCHANGED <<dataset, scenario, years, pc, improved, iterations,
                   lands_to_modify, input_fitness, ret>>

\* scoring a solution without plots raises IndexError in the penalty
GenerateCandidateRaises ==
    /\ pc = "construct"
    /\ i < K
    /\ \E solution \in _generate_initial_solution(years) : PenaltyRaises(solution)
    /\ pc' = "error"
    /\ ret' = [ret EXCEPT !.error = "IndexError"]
    /\ UNCHANGED <<dataset, scenario, years, i, heap, best_solution, best_fitness, improved,
                   iterations, lands_to_modify, input_fitness, max_generated>>

\* entry of _simple_local_search: best_solution = solution.copy() keeps the addresses
EnterLocalSearch ==
    /\ pc = "construct"
    /\ i = K
    /\ best_solution' = best_solution
    /\ best_fitness' = _calculate_fitness(Plan(best_solution), scenario)
    /\ input_fitness' = _calculate_fitness(Plan(best_solution), scenario)
    /\ improved' = TRUE
    /\ iterations' = 0
    /\ pc' = "while"
    /\ UNCHANGED <<dataset, scenario, years, i, heap, lands_to_modify, max_generated, ret>>

\* a loop whose condition is the pass counter alone
StartPass_IgnoresImproved ==
    /\ pc = "while"
    /\ iterations < max_iterations
    /\ improved' = FALSE
    /\ iterations' = iterations + 1
    /\ \E sample \in SUBSET (DOMAIN best_solution) :
          /\ Cardinality(sample) = Min(SampleSize, Cardinality(DOMAIN best_solution))
          /\ lands_to_modify' = sample
    /\ pc' = "for"
    /\ UNCHANGED <<dataset, scenario, years, i, heap, best_solution, best_fitness,
                   input_fitness, max_generated, ret>>

\* one more pass: sample min(5, n) plots
StartPass ==
    /\ pc = "while"
    /\ improved /\ iterations < max_iterations
    /\ improved' = FALSE
    /\ iterations' = iterations + 1
    /\ \E sample \in SUBSET (DOMAIN best_solution) :
          /\ Cardinality(sample) = Min(SampleSize, Cardinality(DOMAIN best_solution))
          /\ lands_to_modify' = sample
    /\ pc' = "for"
    /\ UNCHANGED <<dataset, scenario, years, i, heap, best_solution, best_fitness,
                   input_fitness, max_generated, ret>>

\* a write that fills every year of the plot with the regenerated cells
WriteCells_AllYears(h, test_solution, land, year, cells) ==
    [h EXCEPT ![test_solution[land]] = [y \in DOMAIN @ |-> cells]]

\* the heap after test_solution[land][year] has been cleared and refilled with cells
WriteCells(h, test_solution, land, year, cells) ==
    [h EXCEPT ![test_solution[land]] = [@ EXCEPT ![year] = cells]]

\* test_solution = best_solution.copy(): a new outer dict with the same addresses
CopySolution(sol) == sol

\* a pass that goes on to the next sampled plot after an acceptance
TryMove_NoBreak ==
    /\ pc = "for"
    /\ lands_to_modify # {}
    /\ \E land \in lands_to_modify :
          /\ NumYears(heap[best_solution[land]]) > 0
          /\ \E year \in 0..(NumYears(heap[best_solution[land]]) - 1),
                cells \in RegenerateCells(land) :
                LET test_solution == CopySolution(best_solution)
                    heap1 == WriteCells(heap, test_solution, land, year, cells)
                    new_fitness == _calculate_fitness(PlanIn(heap1, test_solution), scenario)
                IN  /\ heap' = heap1
                    /\ lands_to_modify' = lands_to_modify \ {land}
                    /\ IF new_fitness > best_fitness
                       THEN /\ best_solution' = test_solution
                            /\ best_fitness' = new_fitness
                            /\ improved' = TRUE
                            /\ UNCHANGED pc
                       ELSE UNCHANGED <<best_solution, best_fitness, improved, pc>>
    /\ UNCHANGED <<dataset, scenario, years, i, iterations, input_fitness, max_generated, ret>>

\* one candidate of the pass: regenerate a plot-year, score it, accept or reject
TryMove ==
    /\ pc = "for"
    /\ lands_to_modify # {}
    /\ \E land \in lands_to_modify :
          /\ NumYears(heap[best_solution[land]]) > 0
          /\ \E year \in 0..(NumYears(heap[best_solution[land]]) - 1),
                cells \in RegenerateCells(land) :
                LET test_solution == CopySolution(best_solution)
                    heap1 == WriteCells(heap, test_solution, land, year, cells)
                    new_fitness == _calculate_fitness(PlanIn(heap1, test_solution), scenario)
                IN  /\ heap' = heap1
                    /\ IF new_fitness > best_fitness
                       THEN /\ best_solution' = test_solution
                            /\ best_fitness' = new_fitness
                            /\ improved' = TRUE
                            /\ lands_to_modify' = {}
                            /\ pc' = "while"
                       ELSE /\ lands_to_modify' = lands_to_modify \ {land}
                            /\ UNCHANGED <<best_solution, best_fitness, improved, pc>>
    /\ UNCHANGED <<dataset, scenario, years, i, iterations, input_fitness, max_generated, ret>>

\* random.randint(0, -1) raises ValueError on a plot without years
TryMoveRaises ==
    /\ pc = "for"
    /\ \E land \in lands_to_modify : NumYears(heap[best_solution[land]]) = 0
    /\ pc' = "error"
    /\ ret' = [ret EXCEPT !.error = "ValueError"]
    /\ UNCHANGED <<dataset, scenario, years, i, heap, best_solution, best_fitness, improved,
                   iterations, lands_to_modify, input_fitness, max_generated>>

\* the for loop ran out of sampled plots
EndPass ==
    /\ pc = "for"
    /\ lands_to_modify = {}
    /\ pc' = "while"
    /\ UNCHANGED <<dataset, scenario, years, i, heap, best_solution, best_fitness, improved,
                   iterations, lands_to_modify, input_fitness, max_generated, ret>>

\* the while condition fails: _simple_local_search and _simple_optimize return best_solution
ReturnLocalSearch ==
    /\ pc = "while"
    /\ ~(improved /\ iterations < max_iterations)
    /\ pc' = "validate"
    /\ UNCHANGED <<dataset, scenario, years, i, heap, best_solution, best_fitness, improved,
                   iterations, lands_to_modify, input_fitness, max_generated, ret>>

ValidatorResults(p, yrs) ==
    [rotation |-> validate_rotation(p, yrs),
     no_replant |-> validate_no_replant(p),
     concentration |-> validate_concentration(p, 2),
     min_area |-> validate_min_area(p, 5)]

\* the four checks of optimize; failures only print warnings
Validate ==
    /\ pc = "validate"
    /\ validate_rotation(Plan(best_solution), years) # "KeyError"
    /\ ret' = [ret EXCEPT !.valid = <<ValidatorResults(Plan(best_solution), years)>>]
    /\ pc' = "done"
    /\ UNCHANGED <<dataset, scenario, years, i, heap, best_solution, best_fitness, improved,
                   iterations, lands_to_modify, input_fitness, max_generated>>

ValidateRaises ==
    /\ pc = "validate"
    /\ validate_rotation(Plan(best_solution), years) = "KeyError"
    /\ ret' = [ret EXCEPT !.error = "KeyError"]
    /\ pc' = "error"
    /\ UNCHANGED <<dataset, scenario, years, i, heap, best_solution, best_fitness, improved,
                   iterations, lands_to_modify, input_fitness, max_generated>>

Next ==
    \/ GenerateCandidate
    \/ GenerateCandidateRaises
    \/ EnterLocalSearch
    \/ StartPass
    \/ TryMove
    \/ TryMoveRaises
    \/ EndPass
    \/ ReturnLocalSearch
    \/ Validate
    \/ ValidateRaises

Spec == Init /\ [][Next]_vars

----------------------------------------------------------------------------
(* The evaluator and the validator called on their own: the plan under      *)
(* evaluation is any plan the generator can return for the dataset.         *)

InitEval ==
    \E d \in EvalDatasets, y \in 0..MaxYears :
        /\ land_info = d.land_info
        /\ crop_info = d.crop_info
        /\ stats_info = d.stats_info
        /\ expected_sales = d.expected_sales
        /\ scenario = 1
        /\ years = y
        /\ pc = "eval"
        /\ i = 0
        /\ heap \in _generate_initial_solution(y)
        /\ best_solution = IdentityRefs(Len(d.land_info))
        /\ best_fitness = NegInf
        /\ improved = FALSE
        /\ iterations = 0
        /\ lands_to_modify = {}
        /\ input_fitness = NegInf
        /\ max_generated = NegInf
        /\ ret = NoRet

PenaltyParts(p) ==
    [rotation |-> RotationPenalty(p),
     replant |-> ReplantPenalty(p),
     concentration |-> ConcentrationPenalty(p),
     min_area |-> MinAreaPenalty(p),
     total |-> _calculate_constraint_penalty(p)]

\* a fitness call that consumes the first plot's first year while scoring it
CallFitness_Consuming ==
    /\ pc = "eval"
    /\ Len(ret.fitness) < 2
    /\ \E sc \in {1, 2} :
          /\ scenario' = sc
          /\ ret' = [ret EXCEPT !.fitness =
                        Append(@, [scenario |-> sc,
                                   value |-> _calculate_fitness(Plan(best_solution), sc)])]
    /\ heap' = IF years > 0 THEN [heap EXCEPT ![1] = [@ EXCEPT ![0] = EmptyDict]] ELSE heap
    /\ UNCHANGED <<dataset, years, pc, i, best_solution, best_fitness, improved,
                   iterations, lands_to_modify, input_fitness, max_generated>>

\* a call of _calculate_fitness(solution, sc); it only reads its arguments
CallFitness ==
    /\ pc = "eval"
    /\ Len(ret.fitness) < 2
    /\ \E sc \in {1, 2} :
          /\ scenario' = sc
          /\ ret' = [ret EXCEPT !.fitness =
                        Append(@, [scenario |-> sc,
                                   value |-> _calculate_fitness(Plan(best_solution), sc)])]
    /\ UNCHANGED <<dataset, years, pc, i, heap, best_solution, best_fitness, improved,
                   iterations, lands_to_modify, input_fitness, max_generated>>

\* a call of _calculate_constraint_penalty(solution)
CallPenalty ==
    /\ pc = "eval"
    /\ ret.penalty = <<>>
    /\ ret' = [ret EXCEPT !.penalty = <<PenaltyParts(Plan(best_solution))>>]
    /\ UNCHANGED <<dataset, scenario, years, pc, i, heap, best_solution, best_fitness, improved,
                   iterations, lands_to_modify, input_fitness, max_generated>>

\* calls of the four validator checks with the arguments optimize passes
CallValidators ==
    /\ pc = "eval"
    /\ ret.valid = <<>>
    /\ ret' = [ret EXCEPT !.valid = <<ValidatorResults(Plan(best_solution), years)>>]
    /\ UNCHANGED <<dataset, scenario, years, pc, i, heap, best_solution, best_fitness, improved,
                   iterations, lands_to_modify, input_fitness, max_generated>>

NextEval ==
    \/ CallFitness
    \/ CallPenalty
    \/ CallValidators

SpecEval == InitEval /\ [][NextEval]_vars

----------------------------------------------------------------------------
(* main: optimize and save_solution for scenario 1, then for scenario 2.    *)
(* Whether a write to disk succeeds is the environment's choice.            *)

MainDatasets == {DatasetGreenhouse, DatasetNoRice, DatasetSinglePlot, DatasetEmpty}

InitMain ==
    \E d \in MainDatasets, y \in 1..MaxYears :
        /\ land_info = d.land_info
        /\ crop_info = d.crop_info
        /\ stats_info = d.stats_info
        /\ expected_sales = d.expected_sales
        /\ scenario = 1
        /\ years = y
        /\ pc = "construct"
        /\ i = 0
        /\ heap = <<>>
        /\ best_solution = <<>>
        /\ best_fitness = NegInf
        /\ improved = FALSE
        /\ iterations = 0
        /\ lands_to_modify = {}
        /\ input_fitness = NegInf
        /\ max_generated = NegInf
        /\ ret = NoRet

\* save_solution: result_df.to_excel(filename) writes the file
SaveExcel ==
    /\ pc = "done"
    /\ ret' = [ret EXCEPT !.export = Append(@, [call |-> "to_excel", raised |-> FALSE])]
    /\ pc' = "saved"
    /\ UNCHANGED <<dataset, scenario, years, i, heap, best_solution, best_fitness, improved,
                   iterations, lands_to_modify, input_fitness, max_generated>>

\* to_excel raises: the except branch is entered
SaveExcelRaises ==
    /\ pc = "done"
    /\ ret' = [ret EXCEPT !.export = Append(@, [call |-> "to_excel", raised |-> TRUE])]
    /\ pc' = "except"
    /\ UNCHANGED <<dataset, scenario, years, i, heap, best_solution, best_fitness, improved,
                   iterations, lands_to_modify, input_fitness, max_generated>>

\* the fallback result_df.to_csv(csv_filename) writes the file
SaveCsv ==
    /\ pc = "except"
    /\ ret' = [ret EXCEPT !.export = Append(@, [call |-> "to_csv", raised |-> FALSE])]
    /\ pc' = "saved"
    /\ UNCHANGED <<dataset, scenario, years, i, heap, best_solution, best_fitness, improved,
                   iterations, lands_to_modify, input_fitness, max_generated>>

\* to_csv raises inside the except branch: nothing catches it, in save_solution or in main
SaveCsvRaises ==
    /\ pc = "except"
    /\ ret' = [ret EXCEPT !.export = Append(@, [call |-> "to_csv", raised |-> TRUE]),
                          !.error = "OSError"]
    /\ pc' = "error"
    /\ UNCHANGED <<dataset, scenario, years, i, heap, best_solution, best_fitness, improved,
                   iterations, lands_to_modify, input_fitness, max_generated>>

\* main goes on to optimizer.optimize(scenario=2)
MainNextScenario ==
    /\ pc = "saved"
    /\ scenario = 1
    /\ scenario' = 2
    /\ pc' = "construct"
    /\ i' = 0
    /\ heap' = <<>>
    /\ best_solution' = <<>>
    /\ best_fitness' = NegInf
    /\ improved' = FALSE
    /\ iterations' = 0
    /\ lands_to_modify' = {}
    /\ input_fitness' = NegInf
    /\ max_generated' = NegInf
    /\ ret' = NoRet
    /\ UNCHANGED <<dataset, years>>

\* both files are written: main prints the summary and returns
MainExit ==
    /\ pc = "saved"
    /\ scenario = 2
    /\ pc' = "exit"
    /\ UNCHANGED <<dataset, scenario, years, i, heap, best_solution, best_fitness, improved,
                   iterations, lands_to_modify, input_fitness, max_generated, ret>>

NextMain ==
    \/ GenerateCandidate
    \/ GenerateCandidateRaises
    \/ EnterLocalSearch
    \/ StartPass
    \/ TryMove
    \/ EndPass
    \/ ReturnLocalSearch
    \/ Validate
    \/ ValidateRaises
    \/ SaveExcel
    \/ SaveExcelRaises
    \/ SaveCsv
    \/ SaveCsvRaises
    \/ MainNextScenario
    \/ MainExit

SpecMain == InitMain /\ [][NextMain]_vars

----------------------------------------------------------------------------
(* Claims about the optimization run (Spec) *)

\* C1: local search is monotone: the fitness of the plan _simple_local_search
\* returns, re-evaluated on that plan, is at least the fitness its input plan
\* had when the call started.
C1_LocalSearchMonotone ==
    pc \in {"validate", "done"} =>
        _calculate_fitness(Plan(best_solution), scenario) >= input_fitness

\* C2: a rejected candidate leaves every cell of best_plan as it was before the
\* candidate was built.
C2_RejectedMoveKeepsBestPlan ==
    [][(pc = "for" /\ pc' = "for" /\ lands_to_modify' # lands_to_modify)
          => PlanIn(heap', best_solution') = PlanIn(heap, best_solution)]_vars

\* C3: the plan optimize returns scores at least as high as each of the K
\* candidate plans the constructive generator produced in the run.
C3_ReturnedBeatsCandidates ==
    pc = "done" =>
        max_generated <= _calculate_fitness(Plan(best_solution), scenario)

\* the season labels and second-season crops legal for a land type
SeasonLegalCells(land_type, cells) ==
    IF land_type \in {"flat_dry", "terrace", "hillside"}
        THEN DOMAIN cells \subseteq {"single"}
    ELSE IF land_type = "water"
        THEN /\ \/ DOMAIN cells \subseteq {"single"}
                \/ DOMAIN cells \subseteq {"first", "second"}
             /\ "second" \in DOMAIN cells => cells["second"].crop_id \in {37, 38, 39}
    ELSE IF land_type = "normal_greenhouse"
        THEN /\ DOMAIN cells \subseteq {"first", "second"}
             /\ "second" \in DOMAIN cells => cells["second"].crop_id \in 40..43
    ELSE IF land_type = "smart_greenhouse"
        THEN DOMAIN cells \subseteq {"first", "second"}
    ELSE FALSE

\* C4: every plot-year of every plan the engine holds, generated or regenerated
\* by local search, carries only the season labels legal for the plot's land
\* type, with the second-season crop restrictions of irrigated plots and
\* ordinary greenhouses.
C4_SeasonLegality ==
    \A l \in DOMAIN best_solution :
        \A y \in DOMAIN heap[best_solution[l]] :
            SeasonLegalCells(land_info[l].type, heap[best_solution[l]][y])

\* an irrigated plot holds two-season cells after local search accepted a move
C4_Witness ==
    /\ pc = "done"
    /\ iterations >= 2
    /\ \E l \in DOMAIN best_solution :
          /\ land_info[l].type = "water"
          /\ \E y \in DOMAIN heap[best_solution[l]] :
                DOMAIN heap[best_solution[l]][y] = {"first", "second"}

----------------------------------------------------------------------------
(* Claims about the evaluator and the validator (SpecEval) *)

NoExcess(p) ==
    \A c \in Cells(p) :
        (StatsKey(p, c) \in DOMAIN stats_info /\ CropAt(p, c) \in DOMAIN expected_sales)
            => stats_info[StatsKey(p, c)].yield_per_mu * AreaAt(p, c)
                   <= 10 * expected_sales[CropAt(p, c)]

\* C6: revenue and fitness under the markdown scenario are at least those under
\* the shortage scenario, and equal when no cell's yield exceeds its crop's
\* expected sales.
C6_MarkdownAtLeastShortage ==
    LET p == Plan(best_solution)
    IN  /\ TotalRevenue40(p, 1) <= TotalRevenue40(p, 2)
        /\ NoExcess(p) => TotalRevenue40(p, 1) = TotalRevenue40(p, 2)
        /\ \A a, b \in DOMAIN ret.fitness :
              (ret.fitness[a].scenario = 1 /\ ret.fitness[b].scenario = 2)
                  => /\ ret.fitness[a].value <= ret.fitness[b].value
                     /\ NoExcess(p) => ret.fitness[a].value = ret.fitness[b].value

\* both scenarios were scored on a plan with excess production, markdown strictly higher
C6_Witness ==
    /\ pc = "eval"
    /\ ~NoExcess(Plan(best_solution))
    /\ \E a, b \in DOMAIN ret.fitness :
          /\ ret.fitness[a].scenario = 1
          /\ ret.fitness[b].scenario = 2
          /\ ret.fitness[a].value < ret.fitness[b].value

\* C7: under the shortage scenario the quantity of a crop credited with revenue,
\* summed over all cells of one year that plant it, never exceeds the crop's
\* expected sales.
C7_PerCropCap ==
    LET p == Plan(best_solution)
    IN  \A crop \in DOMAIN expected_sales, y \in 0..(years - 1) :
            SumFun([c \in {d \in Cells(p) : /\ d[2] = y
                                            /\ CropAt(p, d) = crop
                                            /\ StatsKey(p, d) \in DOMAIN stats_info} |->
                      CappedYield10(Yield10(stats_info[StatsKey(p, c)], AreaAt(p, c)),
                                    expected_sales[crop])])
                <= 10 * expected_sales[crop]

\* the (year, season, crop) triples that appear in a plan, and the plots growing one
StratumCrops(p) == {<<c[2], c[3], CropAt(p, c)>> : c \in Cells(p)}
PlotCount(p, t) ==
    Cardinality({c[1] : c \in {d \in Cells(p) : d[2] = t[1] /\ d[3] = t[2] /\ CropAt(p, d) = t[3]}})

\* C8: the concentration part of the penalty is the sum, over strata and crops,
\* of 50000 x (2 - count) for counts below 2 and 30000 x (count - 8) for counts
\* above 8; it is zero exactly when every count lies within [2, 8].
C8_ConcentrationPenalty ==
    ret.penalty # <<>> =>
        LET p == Plan(best_solution)
        IN  /\ ret.penalty[1].concentration =
                  SumFun([t \in StratumCrops(p) |->
                            IF PlotCount(p, t) < 2 THEN 50000 * (2 - PlotCount(p, t))
                            ELSE IF PlotCount(p, t) > 8 THEN 30000 * (PlotCount(p, t) - 8)
                            ELSE 0])
            /\ ret.penalty[1].concentration = 0
                  <=> \A t \in StratumCrops(p) : PlotCount(p, t) \in 2..8

\* the penalty was computed on a plan with a count below 2, one within [2, 8] and one above 8
C8_Witness ==
    /\ ret.penalty # <<>>
    /\ \E t \in StratumCrops(Plan(best_solution)) : PlotCount(Plan(best_solution), t) < 2
    /\ \E t \in StratumCrops(Plan(best_solution)) : PlotCount(Plan(best_solution), t) \in 2..8
    /\ \E t \in StratumCrops(Plan(best_solution)) : PlotCount(Plan(best_solution), t) > 8

\* the plots of a plan without a legume cell in any year or season
NoLegumePlots(p) ==
    {l \in DOMAIN p :
        \A y \in DOMAIN p[l] : \A s \in DOMAIN p[l][y] :
            ~(/\ p[l][y][s].crop_id \in DOMAIN crop_info
              /\ HasBeanMarker(crop_info[p[l][y][s].crop_id].type))}

\* C9: each plot without a legume cell over the horizon makes validate_rotation
\* return false and adds the rotation penalty of 100000 exactly once.
C9_RotationViolation ==
    LET p == Plan(best_solution)
    IN  /\ ret.penalty # <<>> =>
              ret.penalty[1].rotation = 100000 * Cardinality(NoLegumePlots(p))
        /\ (ret.valid # <<>> /\ NoLegumePlots(p) # {}) => ret.valid[1].rotation = "False"

\* C10: every cell with area below 0.5 adds 20000 x (0.5 - area) to the penalty
\* (4000 for area 0.3), cells with area at least 0.5 add nothing, and the
\* penalty taken off the profit is the same under both scenarios.
C10_MinAreaPenalty ==
    LET p == Plan(best_solution)
    IN  /\ ret.penalty # <<>> =>
              /\ ret.penalty[1].min_area =
                    4000 * Cardinality({c \in Cells(p) : AreaAt(p, c) = 3})
                    + SumFun([c \in {d \in Cells(p) : AreaAt(p, d) < 5 /\ AreaAt(p, d) # 3} |->
                                2000 * (5 - AreaAt(p, c))])
              /\ \A e \in DOMAIN ret.fitness :
                    TotalProfit40(p, ret.fitness[e].scenario) - ret.fitness[e].value
                        = 40 * ret.penalty[1].total

\* both scenarios scored and the penalty computed on a plan with a cell of area 0.3
\* and a cell of area at least 0.5
C10_Witness ==
    /\ ret.penalty # <<>>
    /\ ret.penalty[1].min_area = 4000
    /\ \E c \in Cells(Plan(best_solution)) : AreaAt(Plan(best_solution), c) >= 5
    /\ {ret.fitness[e].scenario : e \in DOMAIN ret.fitness} = {1, 2}

----------------------------------------------------------------------------
(* Claims about the single-plot scenario (Spec) *)

SinglePlotRun ==
    /\ land_info = DatasetSinglePlot.land_info
    /\ crop_info = DatasetSinglePlot.crop_info
    /\ years = 1

\* C11 as stated: on the single-plot dataset with horizon 1 the plan optimize
\* returns has one single-season cell of area 10 planting the crop, and its
\* fitness is 10500 under both scenarios, no penalty being triggered.
C11_SinglePlotFitness ==
    (SinglePlotRun /\ pc = "done") =>
        LET p == Plan(best_solution)
        IN  /\ p[1][0] = [s \in {"single"} |-> Cell(18, 100)]
            /\ _calculate_fitness(p, 1) = FitScale * 10500
            /\ _calculate_fitness(p, 2) = FitScale * 10500

\* C11 amended: on the single-plot dataset with horizon 1 the returned plan
\* either has one single-season cell of area 10 planting crop 18, with profit
\* 10500 and fitness 10500 - 50000 = -39500 under both scenarios (the crop
\* stands on one plot, one short of the two plots rule 3 asks for), or has no
\* cell at all, with profit 0 and fitness -100000 (no legume on the plot).
C11_SinglePlotAmended ==
    (SinglePlotRun /\ pc = "done") =>
        LET p == Plan(best_solution)
        IN  \/ /\ p[1][0] = [s \in {"single"} |-> Cell(18, 100)]
               /\ \A sc \in {1, 2} :
                     /\ TotalProfit40(p, sc) = FitScale * 10500
                     /\ _calculate_fitness(p, sc) = FitScale * (10500 - 50000)
            \/ /\ p[1][0] = EmptyDict
               /\ \A sc \in {1, 2} :
                     /\ TotalProfit40(p, sc) = 0
                     /\ _calculate_fitness(p, sc) = FitScale * (0 - 100000)

\* a finished run on the single-plot dataset that returned the planted plan
C11_Witness ==
    /\ SinglePlotRun
    /\ pc = "done"
    /\ Plan(best_solution)[1][0] = [s \in {"single"} |-> Cell(18, 100)]

----------------------------------------------------------------------------
(* Claims about the validator and the penalty called on their own (SpecEval) *)

\* C12: validate_concentration(plan, min_plots = m) returns true exactly when
\* in every (year, season) stratum every crop that appears is grown on at least
\* m distinct plots, the grouping penalty rule 3 uses; m = 2 is the value
\* optimize passes.
C12_ConcentrationPerStratum ==
    ret.valid # <<>> =>
        LET p == Plan(best_solution)
        IN  /\ ret.valid[1].concentration <=>
                  (\A t \in StratumCrops(p) : PlotCount(p, t) >= 2)
            /\ \A m \in 1..3 :
                  validate_concentration(p, m) <=>
                      (\A t \in StratumCrops(p) : PlotCount(p, t) >= m)

\* the place of a cell in its plot's chronology: by year, then season
CellRank(c) ==
    3 * c[2] + (CHOOSE k \in 0..2 : SeasonOrder[k + 1] = c[3])

\* cells whose crop is the crop of the existing cell just before them on the plot
ReplantPositions(p) ==
    {c \in Cells(p) :
        \E d \in Cells(p) :
            /\ d[1] = c[1]
            /\ CellRank(d) < CellRank(c)
            /\ \A e \in Cells(p) :
                  e[1] = c[1] => ~(CellRank(d) < CellRank(e) /\ CellRank(e) < CellRank(c))
            /\ CropAt(p, d) = CropAt(p, c)}

\* C19: the replant part of the penalty is 50000 times the number of cells
\* whose crop equals the crop of the existing cell just before them in their
\* plot's chronology (year, then single, first, second), year boundaries and
\* omitted cells in between included; validate_no_replant returns false
\* exactly when that number is above zero.
C19_ReplantPenalty ==
    LET p == Plan(best_solution)
    IN  /\ ret.penalty # <<>> =>
              ret.penalty[1].replant = 50000 * Cardinality(ReplantPositions(p))
        /\ ret.valid # <<>> =>
              (ret.valid[1].no_replant <=> Cardinality(ReplantPositions(p)) = 0)

\* penalty and validator called on a plan that repeats a crop across a year
\* boundary
C19_Witness ==
    /\ ret.penalty # <<>>
    /\ ret.valid # <<>>
    /\ ret.penalty[1].replant > 0
    /\ ~ret.valid[1].no_replant
    /\ \E c \in ReplantPositions(Plan(best_solution)) :
          c[2] >= 1 /\ c[3] \in {"single", "first"}

\* C13: legumes are classified the same way everywhere: validate_rotation,
\* called with the plan's horizon, returns true exactly when the rotation
\* penalty of the plan is zero, whatever category tags the crops carry.
C13_LegumeClassification ==
    (ret.valid # <<>> /\ ret.penalty # <<>>) =>
        (ret.valid[1].rotation = "True" <=> ret.penalty[1].rotation = 0)

----------------------------------------------------------------------------
(* Claims about the optimization run, continued (Spec) *)

\* C14: every crop id a plan cell refers to is a crop of the dataset: the
\* generator and the local search draw crops from subsets of the crop sheet and
\* omit the cell when the subset is empty or absent, crop 18 included.
C14_CropsExist ==
    \A a \in DOMAIN heap : \A y \in DOMAIN heap[a] : \A s \in DOMAIN heap[a][y] :
        heap[a][y][s].crop_id \in DOMAIN crop_info

\* C15: no run of optimize enters an error state, whatever the dataset (no
\* plots, missing statistics, no rice, vegetable or fungus crops) and whatever
\* the horizon, 0 included; validator findings are warnings only.
C15_NoFatalError ==
    pc # "error"

\* passes still allowed, then candidates still to evaluate in the running pass
LocalSearchRank ==
    (max_iterations - iterations) * (SampleSize + 3)
    + (IF pc = "for" THEN 2 + Cardinality(lands_to_modify)
       ELSE IF pc = "while" THEN 1 ELSE 0)

\* what every step taken inside the local search does
LocalSearchStep ==
    pc \in {"while", "for"} =>
        /\ LocalSearchRank' < LocalSearchRank
        /\ LocalSearchRank' >= 0
        /\ iterations' <= max_iterations
        /\ (pc = "while" /\ ~improved) => pc' = "validate"
        /\ (pc = "while" /\ pc' = "for") =>
              /\ iterations' = iterations + 1
              /\ Cardinality(lands_to_modify')
                    = Min(SampleSize, Cardinality(DOMAIN best_solution))
        /\ (pc = "for" /\ pc' = "for") =>
              /\ lands_to_modify' \subseteq lands_to_modify
              /\ Cardinality(lands_to_modify') = Cardinality(lands_to_modify) - 1
              /\ iterations' = iterations
        /\ (pc = "for" /\ pc' = "while") => iterations' = iterations

AcceptStep == pc = "for" /\ best_fitness' # best_fitness

\* C18 as stated: a candidate is accepted only if its fitness is strictly
\* greater than best_fitness, and after an acceptance the pass moves on to the
\* next sampled plot: the plots still to be visited stay in the pass, so that
\* one pass can accept more than one improvement.
C18_PassMovesOn ==
    [][AcceptStep =>
          /\ best_fitness' > best_fitness
          /\ Cardinality(lands_to_modify) > 1 =>
                /\ pc' = "for"
                /\ lands_to_modify' \subseteq lands_to_modify
                /\ Cardinality(lands_to_modify') = Cardinality(lands_to_modify) - 1]_vars

\* what a step of the pass does with its candidate
CandidateStep ==
    /\ AcceptStep =>
          /\ best_fitness' > best_fitness
          /\ best_fitness' = _calculate_fitness(PlanIn(heap', best_solution'), scenario)
          /\ ~improved /\ improved'
          /\ pc' = "while"
          /\ lands_to_modify' = {}
    /\ (pc = "for" /\ pc' = "for") =>
          /\ best_fitness' = best_fitness
          /\ best_solution' = best_solution
          /\ ~improved'
    /\ (pc = "while" /\ pc' = "for") => ~improved'

\* C18 amended: a candidate is accepted only if its fitness is strictly greater
\* than best_fitness, and an acceptance ends the pass: the sampled plots not
\* yet visited are dropped, the loop condition is tested next, and a pass
\* accepts at most one improvement; a step that stays in the pass has accepted
\* nothing.
C18_AcceptEndsPass == [][CandidateStep]_vars

\* a search on two plots that accepted a candidate in its second pass and is
\* back at the loop condition
C18_Witness ==
    /\ pc = "while"
    /\ improved
    /\ iterations = 2
    /\ best_fitness > input_fitness
    /\ Cardinality(DOMAIN best_solution) = 2

\* C20: at the start of every pass of the local search and when it returns,
\* the tracked best_fitness is the fitness of the current best_plan.
C20_BestFitnessTracksPlan ==
    (pc = "validate" \/ (pc = "while" /\ improved /\ iterations < max_iterations)) =>
        best_fitness = _calculate_fitness(Plan(best_solution), scenario)

\* the plan has an entry for every plot, and each plot has the years 0..H-1
PlanCovers ==
    /\ DOMAIN best_solution = Lands
    /\ \A l \in DOMAIN best_solution : DOMAIN heap[best_solution[l]] = 0..(years - 1)

\* the plot-years whose cells a step changes
ChangedPlotYears ==
    {ly \in Lands \X (0..(years - 1)) :
        heap'[best_solution'[ly[1]]][ly[2]] # heap[best_solution[ly[1]]][ly[2]]}

\* what a step into or inside the local search does to the shape of the plan
CoverageStep ==
    /\ pc' \in {"while", "for", "validate", "done"} => PlanCovers'
    /\ pc \in {"while", "for"} =>
          /\ DOMAIN best_solution' = DOMAIN best_solution
          /\ DOMAIN heap' = DOMAIN heap
          /\ \A a \in DOMAIN heap : DOMAIN heap'[a] = DOMAIN heap[a]
    /\ (pc = "for" /\ pc' \in {"while", "for"}) =>
          /\ Cardinality(ChangedPlotYears) <= 1
          /\ \A ly \in ChangedPlotYears : ly[1] \in lands_to_modify

\* C21: every plan of a run with horizon H has an entry for every plot of the
\* dataset and, for each plot, exactly the years 0..H-1, from the entry of the
\* local search to the plan optimize returns; the local search never adds or
\* removes a plot or a year, and each move changes the cells of only one
\* plot-year, that of a sampled plot.
C21_PlanCoverage == [][CoverageStep]_vars

\* a returned plan over two plots and two years after a search that accepted a move
C21_Witness ==
    /\ pc = "done"
    /\ years = 2
    /\ Cardinality(Lands) = 2
    /\ iterations >= 2
    /\ PlanCovers

----------------------------------------------------------------------------
(* Claims about main (SpecMain) *)

\* C16: an export failure is isolated per scenario: save_solution tries the
\* CSV fallback exactly once, after the spreadsheet write has failed, and when
\* the fallback fails as well only that scenario's export is lost: in main a
\* failed export of scenario 1 does not end the run before scenario 2.
C16_ExportIsolated ==
    /\ Len(ret.export) <= 2
    /\ \A e \in DOMAIN ret.export :
          ret.export[e].call = "to_csv" <=>
              (e = 2 /\ ret.export[1] = [call |-> "to_excel", raised |-> TRUE])
    /\ (scenario = 1 /\ \E e \in DOMAIN ret.export :
                            ret.export[e] = [call |-> "to_csv", raised |-> TRUE])
           => pc # "error"

====
